---- MODULE Spec2Model ----
(***************************************************************************)
(* Model of steamlit_app.py: the ledger pipeline of the financial          *)
(* dashboard.  One run of main() is a walk through the program counter pc: *)
(* process_transactions, the date widgets and the range validation, the    *)
(* branch of a valid range (filter_transactions,                           *)
(* generate_monthly_summary_chart, calculate_financials, display) and the  *)
(* Kontostand sidebar block.                                               *)
(*                                                                         *)
(* A DataFrame is a sequence of rows; a row is a record carrying its index *)
(* label idx (the RangeIndex label read_csv gave it), Datum, Erlaeuterung  *)
(* and Betrag.  A text is a sequence of one-character strings.  A date is  *)
(* <<year, month, day>>; NaT is the missing date.  Amounts are integers.   *)
(***************************************************************************)
EXTENDS Integers, Sequences, FiniteSets, TLC

VARIABLES
    csv,                    \* the rows of the uploaded file
    readable,               \* whether read_csv can read the file
    pc,                     \* where the run of main() stands
    transactions,           \* process_transactions' first result
    kontostand_rows,        \* process_transactions' second result
    start_date, end_date,   \* the dates of the two date widgets
    keywords,               \* the keywords parsed from the text area
    filtered_transactions,  \* filter_transactions' first result
    invalid_date_rows,      \* filter_transactions' second result
    monthly_summary,        \* the frame behind the monthly chart
    financials,             \* calculate_financials' result
    assigned,               \* the locals of main() that have been assigned
    formatted,              \* the frames whose Datum column was formatted
    calls,                  \* the functions main() has called
    messages,               \* the st.error messages shown
    error                   \* the exception that ended the run, or "none"

vars == <<csv, readable, pc, transactions, kontostand_rows, start_date, end_date,
          keywords, filtered_transactions, invalid_date_rows,
          monthly_summary, financials, assigned, formatted, calls, messages,
          error>>

(***************************************************************************)
(* Bounds of the model                                                     *)
(***************************************************************************)
MaxRows == 2

NaT == <<0, 0, 0>>

Dates == {<<2023, 12, 31>>, <<2024, 1, 30>>, <<2024, 1, 31>>}

Amounts == {-400, 1000}

Kontostand == <<"K", "o", "n", "t", "o", "s", "t", "a", "n", "d">>

Descriptions == {Kontostand,
                 <<"k", "o", "n", "t", "o", "s", "t", "a", "n", "d">>,
                 <<"R", "e", "n", "t">>}

\* what the user may type into the keyword text area:
\* "", "RENT", "RENT, konto" and "."
KeywordInputs == {<<>>,
                  <<"R", "E", "N", "T">>,
                  <<"R", "E", "N", "T", ",", " ", "k", "o", "n", "t", "o">>,
                  <<".">>}

(***************************************************************************)
(* Text: case folding, literal substring, and the regular expressions      *)
(* str.contains builds.  The alphabet is letters, the blank, "." and "|";  *)
(* of the regular-expression syntax, alternation and the wildcard are      *)
(* modelled.                                                               *)
(***************************************************************************)
UpperCase == <<"A", "B", "C", "D", "E", "F", "G", "H", "I", "J", "K", "L", "M",
               "N", "O", "P", "Q", "R", "S", "T", "U", "V", "W", "X", "Y", "Z">>

LowerCase == <<"a", "b", "c", "d", "e", "f", "g", "h", "i", "j", "k", "l", "m",
               "n", "o", "p", "q", "r", "s", "t", "u", "v", "w", "x", "y", "z">>

LowerOf == [c \in {UpperCase[i] : i \in 1..26} |->
                LowerCase[CHOOSE i \in 1..26 : UpperCase[i] = c]]

\* str.lower() on one character
Lower(c) == IF c \in DOMAIN LowerOf THEN LowerOf[c] ELSE c

Range(s) == {s[i] : i \in 1..Len(s)}

\* Python's `needle in haystack` on str
PyIn(needle, haystack) ==
    \E i \in 1..(Len(haystack) + 1) :
        /\ i + Len(needle) - 1 <= Len(haystack)
        /\ SubSeq(haystack, i, i + Len(needle) - 1) = needle

\* '|'.join(keywords)
RECURSIVE Join(_)
Join(kws) ==
    IF kws = <<>> THEN <<>>
    ELSE IF Len(kws) = 1 THEN kws[1]
    ELSE kws[1] \o <<"|">> \o Join(Tail(kws))

\* the alternatives of a pattern: the pieces between the "|" characters
RECURSIVE Alternatives(_, _)
Alternatives(pat, cur) ==
    IF pat = <<>> THEN <<cur>>
    ELSE IF Head(pat) = "|" THEN <<cur>> \o Alternatives(Tail(pat), <<>>)
    ELSE Alternatives(Tail(pat), Append(cur, Head(pat)))

\* one pattern character against one text character
AtomMatch(p, c, case) ==
    \/ p = "." /\ c # "\n"
    \/ p # "." /\ (IF case THEN p = c ELSE Lower(p) = Lower(c))

\* one alternative of a pattern at position i of the text
MatchAt(alt, text, i, case) ==
    /\ i + Len(alt) - 1 <= Len(text)
    /\ \A j \in 1..Len(alt) : AtomMatch(alt[j], text[i + j - 1], case)

\* re.search(pat, text), with re.IGNORECASE unless case
ReSearch(pat, text, case) ==
    \E alt \in Range(Alternatives(pat, <<>>)) :
        \E i \in 1..(Len(text) + 1) : MatchAt(alt, text, i, case)

\* Series.str.contains(pat, case=case, na=False) on one description
StrContains(text, pat, case) == ReSearch(pat, text, case)

(***************************************************************************)
(* Dates                                                                   *)
(***************************************************************************)
isna(d) == d = NaT

DateLt(a, b) ==
    \/ a[1] < b[1]
    \/ a[1] = b[1] /\ a[2] < b[2]
    \/ a[1] = b[1] /\ a[2] = b[2] /\ a[3] < b[3]

\* Timestamp comparison a <= b; any comparison with NaT is False
DateLe(a, b) == ~isna(a) /\ ~isna(b) /\ (a = b \/ DateLt(a, b))

(***************************************************************************)
(* DataFrame helpers                                                       *)
(***************************************************************************)
RECURSIVE SumBetrag(_)
SumBetrag(df) == IF df = <<>> THEN 0 ELSE Head(df).Betrag + SumBetrag(Tail(df))

\* the orderings of a set of rows, as sequences
Orderings(S) ==
    {f \in [1..Cardinality(S) -> S] : \A i, j \in 1..Cardinality(S) : i # j => f[i] # f[j]}

\* DataFrame.sort_values(by="Datum"), kind="quicksort": the rows with a date
\* in ascending date order, rows of equal date in any order; the rows
\* without a date last, in their original order.
SortValues(df) ==
    LET valid   == SelectSeq(df, LAMBDA r : ~isna(r.Datum))
        missing == SelectSeq(df, LAMBDA r : isna(r.Datum))
    IN  {o \o missing : o \in {f \in Orderings(Range(valid)) :
            \A i \in 1..(Len(f) - 1) : ~DateLt(f[i + 1].Datum, f[i].Datum)}}

(***************************************************************************)
(* process_transactions                                                    *)
(***************************************************************************)
None == <<>>

SetSaldo(row, saldo) ==
    [idx |-> row.idx, Datum |-> row.Datum, Erlaeuterung |-> row.Erlaeuterung,
     Betrag |-> row.Betrag, Saldo |-> saldo]

\* BalanceLoop with `=` written for `+=`: the balance is overwritten by the
\* row's amount
RECURSIVE BalanceLoopAssign(_, _)
BalanceLoopAssign(rows, current_balance) ==
    IF rows = <<>> THEN <<>>
    ELSE LET row == Head(rows) IN
         IF PyIn(Kontostand, row.Erlaeuterung)
         THEN <<SetSaldo(row, <<current_balance>>)>>
                  \o BalanceLoopAssign(Tail(rows), current_balance)
         ELSE <<SetSaldo(row, <<row.Betrag>>)>>
                  \o BalanceLoopAssign(Tail(rows), row.Betrag)

\* the loop over transactions.iloc[1:]: a row whose description mentions the
\* marker carries the balance, any other row adds its amount
RECURSIVE BalanceLoop(_, _)
BalanceLoop(rows, current_balance) ==
    IF rows = <<>> THEN <<>>
    ELSE LET row == Head(rows) IN
         IF PyIn(Kontostand, row.Erlaeuterung)
         THEN <<SetSaldo(row, <<current_balance>>)>>
                  \o BalanceLoop(Tail(rows), current_balance)
         ELSE <<SetSaldo(row, <<current_balance + row.Betrag>>)>>
                  \o BalanceLoop(Tail(rows), current_balance + row.Betrag)

\* 'Saldo' of the first row is its own amount; the loop fills in the rest
ComputeSaldo(sorted) ==
    <<SetSaldo(sorted[1], <<sorted[1].Betrag>>)>>
        \o BalanceLoop(Tail(sorted), sorted[1].Betrag)

\* the rows whose description matches the marker, and the others
KontostandRows(df) ==
    SelectSeq(df, LAMBDA r : StrContains(r.Erlaeuterung, Kontostand, TRUE))

TransactionRows(df) ==
    SelectSeq(df, LAMBDA r : ~StrContains(r.Erlaeuterung, Kontostand, TRUE))

\* load_csv: the frame read_csv builds, or, when read_csv raises, the
\* st.error message and an empty frame
load_csv(file_path) ==
    IF file_path.readable
    THEN [frame |-> file_path.rows, errors |-> {}]
    ELSE [frame |-> <<>>, errors |-> {"Error loading CSV"}]

\* the outcomes of process_transactions on a file: a pair of frames, or the
\* IndexError of transactions.index[0] on a frame that has no transaction
\* row left; errors are the messages load_csv has shown
process_transactions(transactions_file) ==
    LET loaded == load_csv(transactions_file)
        df     == loaded.frame
    IN  IF df = <<>>
        THEN {[raised |-> "none", transactions |-> <<>>, kontostand_rows |-> <<>>,
               errors |-> loaded.errors]}
        ELSE IF TransactionRows(df) = <<>>
        THEN {[raised |-> "IndexError", transactions |-> <<>>,
               kontostand_rows |-> KontostandRows(df), errors |-> loaded.errors]}
        ELSE {[raised |-> "none", transactions |-> ComputeSaldo(sorted),
               kontostand_rows |-> KontostandRows(df), errors |-> loaded.errors] :
                  sorted \in SortValues(TransactionRows(df))}

(***************************************************************************)
(* filter_transactions                                                     *)
(***************************************************************************)
\* pd.to_datetime(..., errors='coerce') on the Datum column
IsDate(d) == d[1] >= 1 /\ d[2] \in 1..12 /\ d[3] \in 1..31

ToDatetime(d) == IF IsDate(d) THEN d ELSE NaT

CoerceDatum(df) ==
    [i \in 1..Len(df) |-> [df[i] EXCEPT !.Datum = ToDatetime(df[i].Datum)]]

\* filter_transactions with the end of the range exclusive
filter_transactions_open_end(df, start, end, kws) ==
    LET coerced   == CoerceDatum(df)
        invalid   == SelectSeq(coerced, LAMBDA r : isna(r.Datum))
        in_range  == SelectSeq(coerced,
                        LAMBDA r : DateLe(start, r.Datum) /\ DateLt(r.Datum, end)
                                   /\ ~isna(r.Datum))
        filtered  == IF kws # <<>>
                     THEN SelectSeq(in_range,
                            LAMBDA r : StrContains(r.Erlaeuterung, Join(kws), FALSE))
                     ELSE in_range
    IN  <<filtered, invalid>>

\* filter_transactions with the rows of a missing date let through the
\* date filter
filter_transactions_keep_missing(df, start, end, kws) ==
    LET coerced   == CoerceDatum(df)
        invalid   == SelectSeq(coerced, LAMBDA r : isna(r.Datum))
        in_range  == SelectSeq(coerced,
                        LAMBDA r : isna(r.Datum)
                                   \/ (DateLe(start, r.Datum) /\ DateLe(r.Datum, end)))
        filtered  == IF kws # <<>>
                     THEN SelectSeq(in_range,
                            LAMBDA r : StrContains(r.Erlaeuterung, Join(kws), FALSE))
                     ELSE in_range
    IN  <<filtered, invalid>>

filter_transactions(df, start, end, kws) ==
    LET coerced   == CoerceDatum(df)
        invalid   == SelectSeq(coerced, LAMBDA r : isna(r.Datum))
        in_range  == SelectSeq(coerced,
                        LAMBDA r : DateLe(start, r.Datum) /\ DateLe(r.Datum, end))
        filtered  == IF kws # <<>>
                     THEN SelectSeq(in_range,
                            LAMBDA r : StrContains(r.Erlaeuterung, Join(kws), FALSE))
                     ELSE in_range
    IN  <<filtered, invalid>>

(***************************************************************************)
(* calculate_financials                                                    *)
(***************************************************************************)
\* total / unique_days, kept as an exact quotient
Quotient(total, unique_days) == [num |-> total, den |-> unique_days]

\* calculate_financials without the guard on unique_days
calculate_financials_unguarded(df) ==
    LET total_income   == SumBetrag(SelectSeq(df, LAMBDA r : r.Betrag > 0))
        total_expenses == SumBetrag(SelectSeq(df, LAMBDA r : r.Betrag < 0))
        unique_days    == Cardinality({df[i].Datum : i \in 1..Len(df)} \ {NaT})
    IN  [total_income |-> total_income,
         total_expenses |-> total_expenses,
         net_balance |-> total_income + total_expenses,
         unique_days |-> unique_days,
         avg_income_per_day |-> Quotient(total_income, unique_days),
         avg_expense_per_day |-> Quotient(total_expenses, unique_days)]

calculate_financials(df) ==
    LET total_income   == SumBetrag(SelectSeq(df, LAMBDA r : r.Betrag > 0))
        total_expenses == SumBetrag(SelectSeq(df, LAMBDA r : r.Betrag < 0))
        unique_days    == Cardinality({df[i].Datum : i \in 1..Len(df)} \ {NaT})
    IN  [total_income |-> total_income,
         total_expenses |-> total_expenses,
         net_balance |-> total_income + total_expenses,
         unique_days |-> unique_days,
         avg_income_per_day |-> IF unique_days > 0
                                THEN Quotient(total_income, unique_days)
                                ELSE Quotient(0, 1),
         avg_expense_per_day |-> IF unique_days > 0
                                 THEN Quotient(total_expenses, unique_days)
                                 ELSE Quotient(0, 1)]

(***************************************************************************)
(* generate_monthly_summary_chart: the monthly_summary frame               *)
(***************************************************************************)
\* dt.to_period('M') and back with dt.to_timestamp(): the first of the month
MonthStart(d) == <<d[1], d[2], 1>>

\* SortedKeys ordering the months by month number, the year ignored
RECURSIVE SortedKeysByMonthNumber(_)
SortedKeysByMonthNumber(S) ==
    IF S = {} THEN <<>>
    ELSE LET least == CHOOSE k \in S : \A o \in S : o = k \/ k[2] < o[2]
                                                   \/ (k[2] = o[2] /\ k[1] < o[1])
         IN  <<least>> \o SortedKeysByMonthNumber(S \ {least})

\* the group keys in ascending order (groupby sorts its keys)
RECURSIVE SortedKeys(_)
SortedKeys(S) ==
    IF S = {} THEN <<>>
    ELSE LET least == CHOOSE k \in S : \A o \in S : o = k \/ DateLt(k, o)
         IN  <<least>> \o SortedKeys(S \ {least})

monthly_summary_frame(df) ==
    LET dated == SelectSeq(df, LAMBDA r : ~isna(r.Datum))
        keys  == SortedKeys({MonthStart(dated[i].Datum) : i \in 1..Len(dated)})
        group(k) == SelectSeq(dated, LAMBDA r : MonthStart(r.Datum) = k)
    IN  [i \in 1..Len(keys) |->
            [Datum |-> keys[i],
             Income |-> SumBetrag(SelectSeq(group(keys[i]), LAMBDA r : r.Betrag > 0)),
             Expenses |-> SumBetrag(SelectSeq(group(keys[i]), LAMBDA r : r.Betrag < 0)) * (-1)]]

(***************************************************************************)
(* main(): the widgets                                                     *)
(***************************************************************************)
\* keywords_input.split(",")
RECURSIVE SplitComma(_, _)
SplitComma(text, cur) ==
    IF text = <<>> THEN <<cur>>
    ELSE IF Head(text) = "," THEN <<cur>> \o SplitComma(Tail(text), <<>>)
    ELSE SplitComma(Tail(text), Append(cur, Head(text)))

\* kw.strip()
RECURSIVE Strip(_)
Strip(kw) ==
    IF kw = <<>> THEN kw
    ELSE IF Head(kw) = " " THEN Strip(Tail(kw))
    ELSE IF kw[Len(kw)] = " " THEN Strip(SubSeq(kw, 1, Len(kw) - 1))
    ELSE kw

\* [kw.strip() for kw in keywords_input.split(",") if kw.strip()]
ParseKeywords(keywords_input) ==
    LET parts    == SplitComma(keywords_input, <<>>)
        stripped == [i \in 1..Len(parts) |-> Strip(parts[i])]
    IN  SelectSeq(stripped, LAMBDA kw : kw # <<>>)

\* transactions["Datum"].min() and .max(): NaT is skipped, NaT if none is left
ValidDatums(df) == {df[i].Datum : i \in 1..Len(df)} \ {NaT}

MinDatum(df) ==
    IF ValidDatums(df) = {} THEN NaT
    ELSE CHOOSE d \in ValidDatums(df) : \A o \in ValidDatums(df) : DateLe(d, o)

MaxDatum(df) ==
    IF ValidDatums(df) = {} THEN NaT
    ELSE CHOOSE d \in ValidDatums(df) : \A o \in ValidDatums(df) : DateLe(o, d)

\* the dates a date widget bounded by min_value and max_value can return
WidgetDates(earliest, latest) ==
    {d \in Dates : DateLe(earliest, d) /\ DateLe(d, latest)}

(***************************************************************************)
(* The ledgers of the model                                                *)
(***************************************************************************)
RowValues == [Datum : Dates \cup {NaT}, Erlaeuterung : Descriptions, Betrag : Amounts]

\* the frame read_csv builds from the row values f: a RangeIndex, no Saldo yet
Ledger(f) ==
    [i \in 1..Len(f) |-> [idx |-> i - 1, Datum |-> f[i].Datum,
                          Erlaeuterung |-> f[i].Erlaeuterung,
                          Betrag |-> f[i].Betrag, Saldo |-> None]]

Init ==
    /\ \/ /\ readable = TRUE
          /\ \E n \in 0..MaxRows : \E f \in [1..n -> RowValues] : csv = Ledger(f)
       \/ /\ readable = FALSE
          /\ csv = <<>>
    /\ pc = "load"
    /\ transactions = <<>>
    /\ kontostand_rows = <<>>
    /\ start_date = NaT
    /\ end_date = NaT
    /\ keywords = <<>>
    /\ filtered_transactions = <<>>
    /\ invalid_date_rows = <<>>
    /\ monthly_summary = <<>>
    /\ financials = <<>>
    /\ assigned = {}
    /\ formatted = {}
    /\ calls = {}
    /\ messages = {}
    /\ error = "none"

(***************************************************************************)
(* main(), step by step                                                    *)
(***************************************************************************)
\* lines 193-197: process_transactions (load_csv within it), and the early
\* return on an empty frame
ProcessTransactions ==
    /\ pc = "load"
    /\ \E out \in process_transactions([readable |-> readable, rows |-> csv]) :
        /\ calls' = calls \cup {"process_transactions", "load_csv"}
        /\ IF out.raised # "none"
           THEN /\ pc' = "crashed"
                /\ error' = out.raised
                /\ messages' = messages \cup out.errors
                /\ UNCHANGED <<transactions, kontostand_rows, assigned>>
           ELSE /\ transactions' = out.transactions
                /\ kontostand_rows' = out.kontostand_rows
                /\ assigned' = assigned \cup {"transactions", "kontostand_rows"}
                /\ error' = error
                /\ IF out.transactions = <<>>
                   THEN /\ messages' = messages \cup out.errors
                                           \cup {"No transactions found in the file."}
                        /\ pc' = "done"
                   ELSE /\ messages' = messages \cup out.errors
                        /\ pc' = "dates"
    /\ UNCHANGED <<csv, readable, start_date, end_date, keywords, filtered_transactions,
                   invalid_date_rows, monthly_summary, financials, formatted>>

\* lines 199-229: the date widgets, the reset button and the range
\* validation.  A date widget cannot take NaT as its value.
DateInputs ==
    /\ pc = "dates"
    /\ LET earliest_date == MinDatum(transactions)
           latest_date   == MaxDatum(transactions)
       IN  IF isna(earliest_date)
           THEN /\ pc' = "crashed"
                /\ error' = "ValueError"
                /\ UNCHANGED <<start_date, end_date, assigned, messages>>
           ELSE \E s \in WidgetDates(earliest_date, latest_date),
                   e \in WidgetDates(earliest_date, latest_date),
                   reset \in BOOLEAN :
                LET sd == IF reset THEN earliest_date ELSE s
                    ed == IF reset THEN latest_date ELSE e
                IN  /\ start_date' = sd
                    /\ end_date' = ed
                    /\ assigned' = assigned \cup {"start_date", "end_date"}
                    /\ error' = error
                    /\ IF DateLt(ed, sd)
                       THEN /\ messages' = messages \cup {"Start date cannot be after end date."}
                            /\ pc' = "kontostand"
                       ELSE /\ messages' = messages
                            /\ pc' = "analyse"
    /\ UNCHANGED <<csv, readable, transactions, kontostand_rows, keywords,
                   filtered_transactions, invalid_date_rows, monthly_summary,
                   financials, formatted, calls>>

\* lines 230-272, the branch of a valid range: the keyword text area,
\* filter_transactions (which also coerces the Datum column of the frame it
\* is given), generate_monthly_summary_chart, calculate_financials, and the
\* display, which formats the Datum column of the filtered frame
Analyse ==
    /\ pc = "analyse"
    /\ \E keywords_input \in KeywordInputs :
        \E res \in {filter_transactions(transactions, start_date, end_date,
                                        ParseKeywords(keywords_input))} :
            /\ keywords' = ParseKeywords(keywords_input)
            /\ filtered_transactions' = res[1]
            /\ invalid_date_rows' = res[2]
            /\ monthly_summary' = monthly_summary_frame(res[1])
            /\ financials' = calculate_financials(res[1])
    /\ transactions' = CoerceDatum(transactions)
    /\ assigned' = assigned \cup {"keywords", "filtered_transactions",
                                  "invalid_date_rows", "monthly_chart",
                                  "total_income", "total_expenses", "net_balance",
                                  "avg_income_per_day", "avg_expense_per_day"}
    /\ calls' = calls \cup {"filter_transactions", "generate_monthly_summary_chart",
                            "calculate_financials"}
    /\ formatted' = formatted \cup {"filtered_transactions"}
    /\ pc' = "kontostand"
    /\ UNCHANGED <<csv, readable, kontostand_rows, start_date, end_date, messages, error>>

\* lines 274-292: the Kontostand sidebar, the plot and the export, which read
\* the local filtered_transactions
ShowKontostand ==
    /\ pc = "kontostand"
    /\ IF kontostand_rows # <<>>
       THEN IF "filtered_transactions" \in assigned
            THEN /\ formatted' = formatted \cup {"kontostand_rows"}
                 /\ calls' = IF filtered_transactions # <<>>
                             THEN calls \cup {"generate_plot"}
                             ELSE calls
                 /\ pc' = "done"
                 /\ error' = error
            ELSE /\ formatted' = formatted \cup {"kontostand_rows"}
                 /\ pc' = "crashed"
                 /\ error' = "UnboundLocalError"
                 /\ calls' = calls
       ELSE /\ pc' = "done"
            /\ UNCHANGED <<formatted, calls, error>>
    /\ UNCHANGED <<csv, readable, transactions, kontostand_rows, start_date, end_date,
                   keywords, filtered_transactions, invalid_date_rows,
                   monthly_summary, financials, assigned, messages>>

Next ==
    \/ ProcessTransactions
    \/ DateInputs
    \/ Analyse
    \/ ShowKontostand

Spec == Init /\ [][Next]_vars

(***************************************************************************)
(* Statements that close with a balance line: the ledgers of Init followed *)
(* by one "Kontostand" row                                                 *)
(***************************************************************************)
ClosingRow == [Datum |-> <<2024, 1, 31>>, Erlaeuterung |-> Kontostand, Betrag |-> 1000]

InitStatement ==
    /\ \/ /\ readable = TRUE
          /\ \E n \in 0..MaxRows : \E f \in [1..n -> RowValues] :
                csv = Ledger(f \o <<ClosingRow>>)
       \/ /\ readable = FALSE
          /\ csv = <<>>
    /\ pc = "load"
    /\ transactions = <<>>
    /\ kontostand_rows = <<>>
    /\ start_date = NaT
    /\ end_date = NaT
    /\ keywords = <<>>
    /\ filtered_transactions = <<>>
    /\ invalid_date_rows = <<>>
    /\ monthly_summary = <<>>
    /\ financials = <<>>
    /\ assigned = {}
    /\ formatted = {}
    /\ calls = {}
    /\ messages = {}
    /\ error = "none"

SpecStatement == InitStatement /\ [][Next]_vars

(***************************************************************************)
(* Vocabulary of the properties                                            *)
(***************************************************************************)
\* process_transactions has returned its two frames
Returned == "transactions" \in assigned

\* the branch of a valid range has run
Analysed == "filtered_transactions" \in assigned

Idx(df) == {df[i].idx : i \in 1..Len(df)}

\* the description contains the marker, literally and case-sensitively
SnapshotMarked(r) == PyIn(Kontostand, r.Erlaeuterung)

LowerText(t) == [i \in 1..Len(t) |-> Lower(t[i])]

\* the description contains kw as a literal substring, whatever the case
ContainsKeyword(r, kw) == PyIn(LowerText(kw), LowerText(r.Erlaeuterung))

\* the input row a result row came from, and equality up to the balance
Source(r) == csv[r.idx + 1]

SameRow(r, q) ==
    /\ r.idx = q.idx
    /\ r.Datum = q.Datum
    /\ r.Erlaeuterung = q.Erlaeuterung
    /\ r.Betrag = q.Betrag

\* the sum of the amounts of the rows of df at the positions I
RECURSIVE SumAt(_, _)
SumAt(df, I) ==
    IF I = {} THEN 0
    ELSE LET i == CHOOSE j \in I : TRUE IN df[i].Betrag + SumAt(df, I \ {i})

\* the row's date lies in the range of the date widgets, bounds included
InRange(r) == DateLe(start_date, r.Datum) /\ DateLe(r.Datum, end_date)

(***************************************************************************)
(* C1.  process_transactions returns a result for every input and never    *)
(* raises: the empty input gives two empty frames, an input whose rows are *)
(* all snapshot-marked gives no transaction and every row as a snapshot.   *)
(* The code raises IndexError on the second kind of input.                 *)
(***************************************************************************)
C1_ProcessNeverRaises ==
    "process_transactions" \in calls =>
        /\ error # "IndexError"
        /\ Returned
        /\ csv = <<>> => (transactions = <<>> /\ kontostand_rows = <<>>)
        /\ (\A i \in 1..Len(csv) : SnapshotMarked(csv[i])) =>
               (transactions = <<>> /\ kontostand_rows = csv)

(***************************************************************************)
(* C2.  In the reconstructed sequence the first row's Saldo is its own     *)
(* amount; every later row's Saldo is the previous Saldo plus its amount,  *)
(* or the previous Saldo if its description contains the marker; no row is *)
(* left without a Saldo.                                                   *)
(***************************************************************************)
C2_BalanceRecurrence ==
    (Returned /\ transactions # <<>>) =>
        /\ transactions[1].Saldo = <<transactions[1].Betrag>>
        /\ \A i \in 2..Len(transactions) :
              transactions[i].Saldo =
                  IF SnapshotMarked(transactions[i])
                  THEN transactions[i - 1].Saldo
                  ELSE <<transactions[i - 1].Saldo[1] + transactions[i].Betrag>>
        /\ \A i \in 1..Len(transactions) : transactions[i].Saldo # None

\* two transactions, the second one's balance differing from its amount
C2_Witness ==
    /\ Returned
    /\ Len(transactions) >= 2
    /\ transactions[1].Betrag # 0
    /\ transactions[2].Saldo = <<transactions[1].Betrag + transactions[2].Betrag>>

(***************************************************************************)
(* C3.  The transaction rows are in ascending date order and rows of equal *)
(* date keep the order they had in the input.  sort_values is called with  *)
(* its default, unstable kind, so the code does not guarantee the second.  *)
(***************************************************************************)
C3_StableDateOrder ==
    Returned =>
        \A i, j \in 1..Len(transactions) :
            (i < j /\ ~isna(transactions[i].Datum) /\ ~isna(transactions[j].Datum)) =>
                /\ ~DateLt(transactions[j].Datum, transactions[i].Datum)
                /\ transactions[i].Datum = transactions[j].Datum =>
                       transactions[i].idx < transactions[j].idx

(***************************************************************************)
(* C4.  For any input, process_transactions returns two frames that        *)
(* partition it: the snapshot frame holds exactly the rows whose           *)
(* description contains 'Kontostand' (case-sensitive), the transaction     *)
(* frame exactly the others, each row once, and the final balance is the   *)
(* sum of the amounts of the unmarked rows alone.  The partition is right  *)
(* whenever the function returns (PartitionWhenReturned is an invariant);  *)
(* on a non-empty input of marked rows only it raises (C1) and returns no  *)
(* frames.                                                                 *)
(***************************************************************************)
PartitionWhenReturned ==
    Returned =>
        /\ Idx(kontostand_rows) = {csv[i].idx : i \in {j \in 1..Len(csv) : SnapshotMarked(csv[j])}}
        /\ Idx(transactions) = {csv[i].idx : i \in {j \in 1..Len(csv) : ~SnapshotMarked(csv[j])}}
        /\ Len(kontostand_rows) + Len(transactions) = Len(csv)
        /\ \A i \in 1..Len(kontostand_rows) : SameRow(kontostand_rows[i], Source(kontostand_rows[i]))
        /\ \A i \in 1..Len(transactions) : SameRow(transactions[i], Source(transactions[i]))
        /\ transactions # <<>> =>
              transactions[Len(transactions)].Saldo =
                  <<SumAt(csv, {j \in 1..Len(csv) : ~SnapshotMarked(csv[j])})>>

C4_PartitionOfEveryInput ==
    /\ "process_transactions" \in calls => Returned
    /\ PartitionWhenReturned

(***************************************************************************)
(* C5.  With start_date > end_date main shows the validation message,      *)
(* calls none of filter_transactions, calculate_financials and             *)
(* generate_monthly_summary_chart, and the run completes.  With snapshot   *)
(* rows in the ledger the code reads filtered_transactions, which was      *)
(* never assigned, and the run ends in UnboundLocalError.                  *)
(***************************************************************************)
C5_InvalidRangeCompletes ==
    "Start date cannot be after end date." \in messages =>
        /\ calls \cap {"filter_transactions", "calculate_financials",
                       "generate_monthly_summary_chart"} = {}
        /\ pc # "crashed"
        /\ error = "none"

(***************************************************************************)
(* C6.  With keywords, a row in the date range is kept if and only if its  *)
(* description contains one of the keywords as a literal substring,        *)
(* whatever the case; without keywords every row in the range is kept.     *)
(* The code joins the keywords into a regular expression, so a keyword     *)
(* such as "." matches descriptions that do not contain it.                *)
(***************************************************************************)
C6_LiteralKeywordMatch ==
    Analysed =>
        \A i \in 1..Len(transactions) :
            transactions[i].idx \in Idx(filtered_transactions) <=>
                /\ InRange(transactions[i])
                /\ \/ keywords = <<>>
                   \/ \E k \in 1..Len(keywords) : ContainsKeyword(transactions[i], keywords[k])

(***************************************************************************)
(* C7.  filter_transactions puts every row without a valid date into       *)
(* invalid_date_rows and none into the included frame; without keywords    *)
(* the included frame is exactly the rows with start_date <= Datum <=      *)
(* end_date, in their order; the two frames are disjoint, and the totals   *)
(* and the monthly buckets add up to the included rows alone.              *)
(***************************************************************************)
C7_DateFilter ==
    Analysed =>
        /\ invalid_date_rows = SelectSeq(transactions, LAMBDA r : r.Datum = NaT)
        /\ \A i \in 1..Len(filtered_transactions) : filtered_transactions[i].Datum # NaT
        /\ Idx(filtered_transactions) \cap Idx(invalid_date_rows) = {}
        /\ keywords = <<>> =>
              filtered_transactions =
                  SelectSeq(transactions,
                      LAMBDA r : r.Datum # NaT
                                 /\ (r.Datum = start_date \/ DateLt(start_date, r.Datum))
                                 /\ (r.Datum = end_date \/ DateLt(r.Datum, end_date)))
        /\ financials.net_balance = SumAt(filtered_transactions, 1..Len(filtered_transactions))
        /\ SumAt([i \in 1..Len(monthly_summary) |->
                     [Betrag |-> monthly_summary[i].Income - monthly_summary[i].Expenses]],
                 1..Len(monthly_summary))
             = SumAt(filtered_transactions, 1..Len(filtered_transactions))

\* no keyword, a row without a date set aside, and a row on the end date kept
C7_Witness ==
    /\ Analysed
    /\ keywords = <<>>
    /\ invalid_date_rows # <<>>
    /\ \E i \in 1..Len(filtered_transactions) : filtered_transactions[i].Datum = end_date

(***************************************************************************)
(* C8.  calculate_financials: total_income is the sum of the amounts > 0,  *)
(* total_expenses the sum of the amounts < 0, so total_income >= 0,        *)
(* total_expenses <= 0 and net_balance = total_income + total_expenses;    *)
(* with no distinct date both averages are 0 and nothing is divided by 0.  *)
(***************************************************************************)
C8_Financials ==
    Analysed =>
        LET df == filtered_transactions IN
        /\ financials.total_income = SumAt(df, {i \in 1..Len(df) : df[i].Betrag > 0})
        /\ financials.total_expenses = SumAt(df, {i \in 1..Len(df) : df[i].Betrag < 0})
        /\ financials.total_income >= 0
        /\ financials.total_expenses <= 0
        /\ financials.net_balance = financials.total_income + financials.total_expenses
        /\ financials.avg_income_per_day.den # 0
        /\ financials.avg_expense_per_day.den # 0
        /\ {df[i].Datum : i \in 1..Len(df)} \ {NaT} = {} =>
              /\ financials.avg_income_per_day.num = 0
              /\ financials.avg_expense_per_day.num = 0

\* the included frame is empty although the range holds transactions
C8_Witness ==
    /\ Analysed
    /\ filtered_transactions = <<>>
    /\ financials.unique_days = 0
    /\ \E i \in 1..Len(transactions) : InRange(transactions[i])

(***************************************************************************)
(* C9.  The monthly summary has one bucket for each (year, month) of the   *)
(* frame it is given and no other; a bucket's Income is the sum of the     *)
(* month's positive amounts, its Expenses the magnitude (>= 0) of the sum  *)
(* of the month's negative amounts; the buckets are in chronological       *)
(* order, whatever the order of the rows: both for the included frame and  *)
(* for the rows of the file in the order they were read.                   *)
(***************************************************************************)
MonthlyOf(m, df) ==
    /\ {<<m[i].Datum[1], m[i].Datum[2]>> : i \in 1..Len(m)}
          = {<<df[i].Datum[1], df[i].Datum[2]>> : i \in {j \in 1..Len(df) : df[j].Datum # NaT}}
    /\ \A i, j \in 1..Len(m) : i < j => DateLt(m[i].Datum, m[j].Datum)
    /\ \A i \in 1..Len(m) :
          LET month == {j \in 1..Len(df) : /\ df[j].Datum[1] = m[i].Datum[1]
                                           /\ df[j].Datum[2] = m[i].Datum[2]}
          IN  /\ m[i].Income = SumAt(df, {j \in month : df[j].Betrag > 0})
              /\ m[i].Expenses = 0 - SumAt(df, {j \in month : df[j].Betrag < 0})
              /\ m[i].Expenses >= 0
              /\ m[i].Datum[3] = 1

C9_MonthlyBuckets ==
    /\ Analysed => MonthlyOf(monthly_summary, filtered_transactions)
    /\ MonthlyOf(monthly_summary_frame(csv), csv)

\* two buckets, December 2023 before January 2024
C9_Witness ==
    /\ Analysed
    /\ Len(monthly_summary) = 2
    /\ monthly_summary[1].Datum[2] > monthly_summary[2].Datum[2]
    /\ monthly_summary[1].Expenses > 0
    /\ monthly_summary[2].Income > 0

(***************************************************************************)
(* C10.  Filtering is idempotent: filter_transactions applied to the frame *)
(* it returned, with the same range and keywords, returns that frame again *)
(* and no row of invalid date.                                             *)
(***************************************************************************)
C10_FilterIdempotent ==
    Analysed =>
        filter_transactions(filtered_transactions, start_date, end_date, keywords)
            = <<filtered_transactions, <<>>>>

\* the first filtering, with keywords, kept a row and set a row aside
C10_Witness ==
    /\ Analysed
    /\ keywords # <<>>
    /\ filtered_transactions # <<>>
    /\ invalid_date_rows # <<>>

====
